---- MODULE Spec2Model ----
(***************************************************************************)
(* Auteur: the article registry (_ArticleDatabase and Article of           *)
(* file_tools.py), its persistence as JSON, the navigation links in        *)
(* rendered HTML, the writing of the variants of an article, and the       *)
(* program run from the command line (auteur.py).                          *)
(*                                                                         *)
(* The specifications share the variables:                                 *)
(*   Spec               the in-memory registry: insert, remove, previous,  *)
(*                      next                                               *)
(*   SpecNavBar         the navigation bar of a registered article         *)
(*   SpecDates          the registry under changes of pub_date             *)
(*   SpecPersist        commit to the database file and load from it       *)
(*   SpecLinks          insert_next_link applied to HTML text              *)
(*   SpecPreviousLinks  insert_previous_link applied to HTML text          *)
(*   SpecUrl            build_article_url                                  *)
(*   SpecSite           articles added to and removed from the website     *)
(*   SpecBodies         Article.html and Article.amp read                  *)
(*   SpecWrite          Article.write                                      *)
(*   SpecMain           auteur(), the top level                            *)
(***************************************************************************)
EXTENDS Integers, Sequences, FiniteSets, TLC

VARIABLES
    articles,   \* _ArticleDatabase.articles: the list of Article objects
    last,       \* the last call made: operation, argument, return value, exception
    file,       \* .auteur/database.json: missing, malformed, or JSON records
    committed,  \* history: the article list that the last commit() serialised
    page,       \* the target article's html and amp bodies, sequences of
                \* lexemes; under SpecWrite its read and write paths too
    calls,      \* history: the insert_next_link calls made, oldest first
    site        \* the website on disk: the configuration and the page of
                \* every target directory (under SpecWrite the files of one)

regVars == <<articles, last>>
fileVars == <<file, committed>>
pageVars == <<page, calls>>
linkVars == <<page, calls, site>>
vars == <<articles, last, file, committed, page, calls, site>>

-----------------------------------------------------------------------------
(* Bounds and input sets *)

\* Longest registry that insert builds, and the latest pub_date
MaxArticles == 3
MaxDate == 1

\* Ticks of pub_date in one minute, the unit of DATE_FORMAT
TicksPerMinute == 2

\* Longest registry that is committed and loaded
MaxPersistLen == 2

\* Pieces of markup in a rendered page, and insert_next_link calls on it
MaxChunks == 4
MaxCalls == 2

\* Longest root URL and longest article path, in lexemes
MaxUrlLen == 3

\* The latest minute an article of the website is dated
MaxSiteMinute == 2

\* Python's None
None == "None"

Targets == {"t1", "t2"}
Titles == {"A", "B", "C"}
Dates == 0..MaxDate

-----------------------------------------------------------------------------
(* Article *)

\* Article.__init__: a new article is registered with no database.
\* pub_date counts ticks of the clock; amp tells whether the amp property
\* yields a body.
Article(source, target, pub_date, title, html_filename, amp_filename, amp) ==
    [source |-> source, target |-> target, pub_date |-> pub_date,
     title |-> title, html_filename |-> html_filename,
     amp_filename |-> amp_filename, amp |-> amp, registered |-> FALSE]

\* Article.register
register(article) == [article EXCEPT !.registered = TRUE]

\* Variant: the truth value a container with __len__ would have
database_truth_len(arts) == Len(arts) > 0

\* bool(_ArticleDatabase instance): the class defines __iter__ but neither
\* __bool__ nor __len__, so an instance is true whatever it holds.
database_truth(arts) == TRUE

\* A return value is <<>> for None and <<v>> for the value v; err names the
\* exception raised, "" for none.

\* The loop of Article.previous over the database, which holds arts
RECURSIVE previous_scan(_, _, _, _)
previous_scan(arts, self, index, previous_article) ==
    IF index > Len(arts) THEN <<>>
    ELSE IF arts[index].title = self.title THEN previous_article
    ELSE previous_scan(arts, self, index + 1, <<arts[index]>>)

\* Variant: previous_article is assigned before the titles are compared
RECURSIVE previous_scan_self(_, _, _)
previous_scan_self(arts, self, index) ==
    IF index > Len(arts) THEN <<>>
    ELSE IF arts[index].title = self.title THEN <<arts[index]>>
    ELSE previous_scan_self(arts, self, index + 1)

previous_self(arts, self) ==
    IF ~(self.registered /\ database_truth(arts))
    THEN [ret |-> <<>>, err |-> "DatabaseError"]
    ELSE [ret |-> previous_scan_self(arts, self, 1), err |-> ""]

\* Article.previous
previous(arts, self) ==
    IF ~(self.registered /\ database_truth(arts))
    THEN [ret |-> <<>>, err |-> "DatabaseError"]
    ELSE [ret |-> previous_scan(arts, self, 1, <<>>), err |-> ""]

\* Article.next
RECURSIVE next_scan(_, _, _, _)
next_scan(arts, self, index, found) ==
    IF index > Len(arts) THEN <<>>
    ELSE IF arts[index].title = self.title
         THEN next_scan(arts, self, index + 1, TRUE)
    ELSE IF found THEN <<arts[index]>>
    ELSE next_scan(arts, self, index + 1, found)

\* Variant: the entry that follows the first match, whatever its title
next_adjacent(arts, self) ==
    LET matches == { i \in 1..Len(arts) : arts[i].title = self.title }
        first == CHOOSE i \in matches : \A j \in matches : i <= j
    IN  IF ~(self.registered /\ database_truth(arts))
        THEN [ret |-> <<>>, err |-> "DatabaseError"]
        ELSE IF matches = {} \/ first = Len(arts)
             THEN [ret |-> <<>>, err |-> ""]
        ELSE [ret |-> <<arts[first + 1]>>, err |-> ""]

next(arts, self) ==
    IF ~(self.registered /\ database_truth(arts))
    THEN [ret |-> <<>>, err |-> "DatabaseError"]
    ELSE [ret |-> next_scan(arts, self, 1, FALSE), err |-> ""]

-----------------------------------------------------------------------------
(* _ArticleDatabase *)

\* list.insert(index, x), with 1-based index: x comes to stand at index
ListInsert(s, index, x) ==
    SubSeq(s, 1, index - 1) \o <<x>> \o SubSeq(s, index, Len(s))

\* list.pop(index), with 1-based index: the list without that element
ListPop(s, index) == SubSeq(s, 1, index - 1) \o SubSeq(s, index + 1, Len(s))

\* The loop of _ArticleDatabase.insert
RECURSIVE insert_scan(_, _, _)
insert_scan(arts, article, index) ==
    IF index > Len(arts) THEN Append(arts, article)
    ELSE IF article.pub_date < arts[index].pub_date
         THEN ListInsert(arts, index, article)
    ELSE insert_scan(arts, article, index + 1)

\* Variant: the article is appended whatever its date
insert_append(arts, article) == Append(arts, register(article))

\* Variant: the scan compares with <=

RECURSIVE insert_scan_le(_, _, _)
insert_scan_le(arts, article, index) ==
    IF index > Len(arts) THEN Append(arts, article)
    ELSE IF article.pub_date <= arts[index].pub_date
         THEN ListInsert(arts, index, article)
    ELSE insert_scan_le(arts, article, index + 1)

insert_le(arts, article) == insert_scan_le(arts, register(article), 1)

\* _ArticleDatabase.insert
insert(arts, article) == insert_scan(arts, register(article), 1)

\* _ArticleDatabase.find_article_index: the 1-based index, 0 for ValueError
RECURSIVE find_scan(_, _, _, _)
find_scan(arts, article, title, index) ==
    IF index > Len(arts) THEN 0
    ELSE IF title /\ article.title = arts[index].title THEN index
    ELSE IF ~title /\ article.target = arts[index].target THEN index
    ELSE find_scan(arts, article, title, index + 1)

find_article_index(arts, article, title) == find_scan(arts, article, title, 1)

\* Variant: the lookup is by target
remove_by_target(arts, article) ==
    LET article_index == find_article_index(arts, article, FALSE)
    IN  IF article_index = 0
        THEN [articles |-> arts, popped |-> <<>>, err |-> "ValueError"]
        ELSE [articles |-> ListPop(arts, article_index),
              popped |-> <<arts[article_index]>>, err |-> ""]

\* Variant: a failed lookup is passed over
remove_silent(arts, article) ==
    LET article_index == find_article_index(arts, article, TRUE)
    IN  IF article_index = 0
        THEN [articles |-> arts, popped |-> <<>>, err |-> ""]
        ELSE [articles |-> ListPop(arts, article_index),
              popped |-> <<arts[article_index]>>, err |-> ""]

\* Variant: pop() is called without the index found
remove_last(arts, article) ==
    IF find_article_index(arts, article, TRUE) = 0
    THEN [articles |-> arts, popped |-> <<>>, err |-> "ValueError"]
    ELSE [articles |-> ListPop(arts, Len(arts)), popped |-> <<arts[Len(arts)]>>,
          err |-> ""]

\* Variant: every entry of the title is dropped
remove_all(arts, article) ==
    LET article_index == find_article_index(arts, article, TRUE)
    IN  IF article_index = 0
        THEN [articles |-> arts, popped |-> <<>>, err |-> "ValueError"]
        ELSE [articles |-> SelectSeq(arts,
                                     LAMBDA a : a.title # article.title),
              popped |-> <<arts[article_index]>>, err |-> ""]

\* _ArticleDatabase.remove: the list afterwards, the entry popped off it
\* (<<>> for none) and the exception raised
remove(arts, article) ==
    LET article_index == find_article_index(arts, article, TRUE)
    IN  IF article_index = 0
        THEN [articles |-> arts, popped |-> <<>>, err |-> "ValueError"]
        ELSE [articles |-> ListPop(arts, article_index),
              popped |-> <<arts[article_index]>>, err |-> ""]

\* The database file: absent, there but not to be opened for reading, not
\* JSON, or a JSON array.
NoFile == [state |-> "missing", records |-> <<>>]
Unreadable == [state |-> "unreadable", records |-> <<>>]
Malformed == [state |-> "malformed", records |-> <<>>]
JsonFile(records) == [state |-> "json", records |-> records]

\* No article body at hand.
NoPage == [html |-> <<>>, amp |-> <<>>]

\* The target directories of a website, and a website with no page written
SiteTargets == {"t1", "t2", "t3"}
NoSite == [generate_amp |-> FALSE, pages |-> [t \in SiteTargets |-> NoPage]]

-----------------------------------------------------------------------------
(* Persistence: Article.article_dict, commit, _ArticleDatabase.__init__ *)

\* The literal that stands for an absent value in the database file
Sentinel == "__None__"

\* Article.str_from_pub_date: strftime with DATE_FORMAT keeps the minute
\* and drops what is below it. The string is modelled by the minute number.
str_from_pub_date(article) == article.pub_date \div TicksPerMinute

\* Article.date_string_to_datetime: the first instant of the minute
date_string_to_datetime(date_string) == date_string * TicksPerMinute

\* _ArticleDatabase.string_or_none
string_or_none(string) == IF string = Sentinel THEN None ELSE string

\* Article.article_dict: the dictionary, and AttributeError when the amp
\* property yields a body while amp_path is None (None has no name).
article_dict(article) ==
    IF article.amp /\ article.amp_filename = None
    THEN [err |-> "AttributeError", dict |-> <<>>]
    ELSE [err |-> "",
          dict |-> <<[source |-> IF article.source # None
                                 THEN article.source ELSE Sentinel,
                      target |-> IF article.target # None
                                 THEN article.target ELSE Sentinel,
                      pub_date |-> str_from_pub_date(article),
                      title |-> IF article.title # None
                                THEN article.title ELSE Sentinel,
                      html_filename |-> IF article.html_filename # None
                                        THEN article.html_filename
                                        ELSE Sentinel,
                      amp_filename |-> IF article.amp
                                       THEN article.amp_filename
                                       ELSE Sentinel]>>]

\* The list comprehension of commit: the dictionaries in list order, or
\* the exception of the first article_dict that raises
RECURSIVE articles_json(_)
articles_json(arts) ==
    IF arts = <<>> THEN [err |-> "", dicts |-> <<>>]
    ELSE LET head == article_dict(Head(arts))
             rest == articles_json(Tail(arts))
         IN  IF head.err # "" THEN [err |-> head.err, dicts |-> <<>>]
             ELSE IF rest.err # "" THEN rest
             ELSE [err |-> "", dicts |-> head.dict \o rest.dicts]

\* _ArticleDatabase.commit: the file afterwards and the exception raised.
\* writable tells whether the file can be opened for writing.
commit(arts, old_file, writable) ==
    LET json == articles_json(arts)
    IN  IF json.err # "" THEN [file |-> old_file, err |-> json.err]
        ELSE IF ~writable THEN [file |-> old_file, err |-> "IOError"]
        ELSE IF old_file.state = "unreadable" THEN [file |-> old_file, err |-> ""]
        ELSE [file |-> JsonFile(json.dicts), err |-> ""]

\* The body of the loop of _ArticleDatabase.__init__ for one record: the
\* registered Article, or TypeError from Path(None). The amp body of a
\* loaded article is read from the file the record names.
load_article(article_json) ==
    LET source == string_or_none(article_json.source)
        target == string_or_none(article_json.target)
        html_filename == string_or_none(article_json.html_filename)
        amp_filename == string_or_none(article_json.amp_filename)
        pub_date == date_string_to_datetime(article_json.pub_date)
        title == article_json.title
    IN  IF source = None \/ target = None
        THEN [err |-> "TypeError", article |-> <<>>]
        ELSE [err |-> "",
              article |-> <<register(Article(source, target, pub_date, title,
                                             html_filename, amp_filename,
                                             amp_filename # None))>>]

RECURSIVE load_records(_)
load_records(records) ==
    IF records = <<>> THEN [err |-> "", articles |-> <<>>]
    ELSE LET head == load_article(Head(records))
             rest == load_records(Tail(records))
         IN  IF head.err # "" THEN [err |-> head.err, articles |-> <<>>]
             ELSE IF rest.err # "" THEN rest
             ELSE [err |-> "", articles |-> head.article \o rest.articles]

\* Variant: a file that is not JSON is taken for an empty one
load_lenient(the_file) ==
    IF the_file.state \in {"missing", "unreadable", "malformed"}
    THEN [err |-> "", articles |-> <<>>]
    ELSE load_records(the_file.records)

\* The branch of _ArticleDatabase.__init__ that reads the file: a file
\* that cannot be opened (IOError from read_json_file) gives the empty
\* registry, a file that is not JSON raises ValueError (JSONDecodeError).
load(the_file) ==
    IF the_file.state \in {"missing", "unreadable"}
    THEN [err |-> "", articles |-> <<>>]
    ELSE IF the_file.state = "malformed"
         THEN [err |-> "ValueError", articles |-> <<>>]
    ELSE load_records(the_file.records)

\* The list articles that _create_get_article_database closes over:
\* nothing is ever put into it.
closure_articles == <<>>

\* _ArticleDatabase(articles): an empty list is read from the file
_ArticleDatabase(arts, the_file) ==
    IF arts = <<>> THEN load(the_file)
    ELSE [err |-> "", articles |-> arts]

\* get_article_database()
get_article_database(the_file) == _ArticleDatabase(closure_articles, the_file)

-----------------------------------------------------------------------------
(* Link maintenance: insert_next_link *)

\* HTML text is a sequence of lexemes. These are the ones the patterns of
\* file_tools name; any other string is text that contains none of them.
HOME == "Home</a>"
SP == " "
AOPEN == "<a href=\""
ACLOSE == "\">"
NEXT == "Next</a>"
NL == "\n"
UP == "../"

Min(S) == CHOOSE x \in S : \A y \in S : x <= y

\* How often a lexeme occurs in a text
Count(text, lexeme) == Cardinality({ i \in 1..Len(text) : text[i] = lexeme })

\* _NEXT_TAG_KEY
_NEXT_TAG_KEY == <<HOME>>

\* _NEXT_TAG_TEMPLATE.format(href)
_NEXT_TAG_TEMPLATE(href) == _NEXT_TAG_KEY \o <<SP, AOPEN>> \o href \o <<ACLOSE, NEXT>>

\* Path('../') / target, as text
up_path(target) == <<UP, target>>

\* re.search(_NEXT_PATTERN, text).group(0), <<>> when nothing matches.
\* The pattern is Home</a>, a space, <a href=", then as few characters
\* other than a newline as possible, then ">Next</a>; the match is the
\* leftmost one.
next_pattern_ends(text, i) ==
    { j \in (i + 3)..(Len(text) - 1) :
        /\ text[j] = ACLOSE
        /\ text[j + 1] = NEXT
        /\ \A m \in (i + 3)..(j - 1) : text[m] # NL }

next_pattern_starts(text) ==
    { i \in 1..(Len(text) - 2) :
        /\ text[i] = HOME
        /\ text[i + 1] = SP
        /\ text[i + 2] = AOPEN
        /\ next_pattern_ends(text, i) # {} }

search_next_pattern(text) ==
    IF next_pattern_starts(text) = {} THEN <<>>
    ELSE LET i == Min(next_pattern_starts(text))
             j == Min(next_pattern_ends(text, i))
         IN  SubSeq(text, i, j + 1)

\* str.replace(old, new): every occurrence of old, from the left, without
\* overlap
RECURSIVE str_replace(_, _, _)
str_replace(text, old, new) ==
    IF Len(text) < Len(old) THEN text
    ELSE IF SubSeq(text, 1, Len(old)) = old
         THEN new \o str_replace(SubSeq(text, Len(old) + 1, Len(text)), old, new)
    ELSE <<Head(text)>> \o str_replace(Tail(text), old, new)

\* Variant: the link is added without a search for an existing one
insert_next_link_always(target_html, next_target) ==
    str_replace(target_html, _NEXT_TAG_KEY,
                _NEXT_TAG_TEMPLATE(up_path(next_target)))

\* insert_next_link: the new text of the body it was given
insert_next_link(target_html, next_target) ==
    LET next_link == _NEXT_TAG_TEMPLATE(up_path(next_target))
        match == search_next_pattern(target_html)
    IN  IF match # <<>>
        THEN str_replace(target_html, match, next_link)
        ELSE str_replace(target_html, _NEXT_TAG_KEY, next_link)

PREV == "Previous</a>"

\* _PREVIOUS_TAG_TEMPLATE.format(href)
_PREVIOUS_TAG_TEMPLATE(href) == <<AOPEN>> \o href \o <<ACLOSE, PREV>>

\* re.search(_PREVIOUS_PATTERN, text).group(0), <<>> when nothing matches.
\* The pattern is <a href=", then as few characters other than a newline
\* as possible, then ">Previous</a>; the match is the leftmost one.
previous_pattern_ends(text, i) ==
    { j \in (i + 1)..(Len(text) - 1) :
        /\ text[j] = ACLOSE
        /\ text[j + 1] = PREV
        /\ \A m \in (i + 1)..(j - 1) : text[m] # NL }

previous_pattern_starts(text) ==
    { i \in 1..Len(text) :
        /\ text[i] = AOPEN
        /\ previous_pattern_ends(text, i) # {} }

search_previous_pattern(text) ==
    IF previous_pattern_starts(text) = {} THEN <<>>
    ELSE LET i == Min(previous_pattern_starts(text))
             j == Min(previous_pattern_ends(text, i))
         IN  SubSeq(text, i, j + 1)

\* Variant: without a match the link is put in front of the body
insert_previous_link_creating(target_html, previous_target) ==
    LET previous_link == _PREVIOUS_TAG_TEMPLATE(up_path(previous_target))
        match == search_previous_pattern(target_html)
    IN  IF match # <<>>
        THEN str_replace(target_html, match, previous_link)
        ELSE previous_link \o target_html

\* insert_previous_link: the new text of the body it was given
insert_previous_link(target_html, previous_target) ==
    LET previous_link == _PREVIOUS_TAG_TEMPLATE(up_path(previous_target))
        match == search_previous_pattern(target_html)
    IN  IF match # <<>>
        THEN str_replace(target_html, match, previous_link)
        ELSE target_html

-----------------------------------------------------------------------------
(* The navigation bar *)

\* _NAV_BAR_TEMPLATE.format(previous_article=href)
_NAV_BAR_TEMPLATE(href) ==
    <<AOPEN>> \o href \o <<ACLOSE, PREV, SP, AOPEN, UP, ACLOSE, HOME>>

\* Variant: the Previous link stays in the bar when its href is empty
nav_bar_unpruned(arts, article) ==
    LET p == previous(arts, article)
    IN  IF p.err # "" THEN [ret |-> <<>>, err |-> p.err]
        ELSE [ret |-> <<_NAV_BAR_TEMPLATE(IF p.ret # <<>>
                                          THEN up_path(p.ret[1].target)
                                          ELSE <<>>)>>,
              err |-> ""]

\* The navigation bar that parse_article builds for an article whose
\* database holds arts; article.previous raises for an unregistered one.
nav_bar(arts, article) ==
    LET p == previous(arts, article)
    IN  IF p.err # "" THEN [ret |-> <<>>, err |-> p.err]
        ELSE LET previous_article_link ==
                     IF p.ret # <<>> THEN up_path(p.ret[1].target) ELSE <<>>
                 bar == _NAV_BAR_TEMPLATE(previous_article_link)
             IN  [ret |-> <<IF p.ret = <<>>
                            THEN str_replace(bar, <<AOPEN, ACLOSE, PREV>>, <<>>)
                            ELSE bar>>,
                  err |-> ""]

-----------------------------------------------------------------------------
(* Rendering an article and updating its links *)

\* generate_html and generate_amp: the page template filled in. Of the
\* fields only nav_bar and the article content, which stands under its
\* title, are kept; the AMP template begins with a line of its own.
generate_html(bar, article) == bar \o <<NL, article.title>>
generate_amp(bar, article) == <<"amp", NL>> \o bar \o <<NL, article.title>>

\* The file names Article.__init__ sets for the two variants of a new
\* article, and the article once Article.write has written them
html_write_name(with_amp) == IF with_amp THEN "index-noamp.html" ELSE "index.html"
amp_write_name(with_amp) == IF with_amp THEN "index.html" ELSE None

written(article, with_amp) ==
    [article EXCEPT !.html_filename = html_write_name(with_amp),
                    !.amp_filename = amp_write_name(with_amp),
                    !.amp = with_amp]

\* One pass of Article.update_links over one body of the article
update_body(arts, self, body) ==
    LET p == previous(arts, self).ret
        n == next(arts, self).ret
        linked == IF p # <<>> THEN insert_previous_link(body, p[1].target)
                  ELSE body
    IN  IF n # <<>> THEN insert_next_link(linked, n[1].target) ELSE linked

\* Article.update_links: the page afterwards and the exception raised.
\* An article without an html body makes re.search raise TypeError; the
\* amp body is gone over when there is one.
update_links(arts, self, pg) ==
    IF previous(arts, self).err # ""
    THEN [page |-> pg, err |-> previous(arts, self).err]
    ELSE IF pg.html = <<>>
              /\ (previous(arts, self).ret # <<>> \/ next(arts, self).ret # <<>>)
         THEN [page |-> pg, err |-> "TypeError"]
    ELSE [page |-> [html |-> update_body(arts, self, pg.html),
                    amp |-> IF pg.amp # <<>>
                            THEN update_body(arts, self, pg.amp)
                            ELSE pg.amp],
          err |-> ""]

-----------------------------------------------------------------------------
(* URLs *)

\* A URL or a path is a sequence of lexemes: a slash, a backslash, or text
\* that neither begins nor ends with one of them and holds no backslash.
SLASH == "/"
BACKSLASH == "\\"

\* x[:-1] and x[1:]
DropLast(x) == SubSeq(x, 1, Len(x) - 1)
DropFirst(x) == SubSeq(x, 2, Len(x))

\* Variant: every trailing slash of the root is taken off
RECURSIVE rstrip_slashes(_)
rstrip_slashes(x) ==
    IF x # <<>> /\ x[Len(x)] = SLASH THEN rstrip_slashes(DropLast(x)) ELSE x

build_article_url_rstrip(root_url, article_path) ==
    LET article_path_string == str_replace(article_path, <<BACKSLASH>>, <<SLASH>>)
    IN  IF root_url = <<>> \/ article_path_string = <<>>
        THEN [ret |-> <<>>, err |-> "IndexError"]
        ELSE [ret |-> <<rstrip_slashes(root_url) \o <<SLASH>> \o
                        (IF article_path_string[1] = SLASH
                         THEN DropFirst(article_path_string)
                         ELSE article_path_string)>>,
              err |-> ""]

\* build_article_url, of file_tools and of auteur (the same text), called
\* with strings; root_url[-1] and article_path_string[0] raise IndexError
\* on an empty string.
build_article_url(root_url, article_path) ==
    LET article_path_string == str_replace(article_path, <<BACKSLASH>>, <<SLASH>>)
    IN  IF root_url = <<>> \/ article_path_string = <<>>
        THEN [ret |-> <<>>, err |-> "IndexError"]
        ELSE LET root == IF root_url[Len(root_url)] = SLASH
                         THEN DropLast(root_url) ELSE root_url
                 path == IF article_path_string[1] = SLASH
                         THEN DropFirst(article_path_string)
                         ELSE article_path_string
             IN  [ret |-> <<root \o <<SLASH>> \o path>>, err |-> ""]

-----------------------------------------------------------------------------
(* The in-memory registry *)

\* Articles a caller constructs: rendered from a Markdown source, nothing
\* written to disk yet.
NewArticles ==
    { Article("src", target, pub_date, title, None, None, FALSE) :
        target \in Targets, pub_date \in Dates, title \in Titles }

Call(op, arg, ret, err) == [op |-> op, arg |-> arg, ret |-> ret, err |-> err]

Init ==
    /\ articles = <<>>
    /\ last = Call("init", <<>>, <<>>, "")
    /\ file = NoFile
    /\ committed = <<>>
    /\ page = NoPage
    /\ calls = <<>>
    /\ site = NoSite

\* get_article_database().insert(article) with a newly constructed article
Insert(article) ==
    /\ Len(articles) < MaxArticles
    /\ articles' = insert(articles, article)
    /\ last' = Call("insert", <<register(article)>>, <<>>, "")
    /\ UNCHANGED <<fileVars, linkVars>>

\* get_article_database().remove(article). The method returns nothing;
\* ret records the entry it popped.
Remove(article) ==
    LET r == remove(articles, article)
    IN  /\ articles' = r.articles
        /\ last' = Call("remove", <<article>>, r.popped, r.err)
        /\ UNCHANGED <<fileVars, linkVars>>

\* article.previous, for an article registered with the database or not
Previous(article) ==
    LET r == previous(articles, article)
    IN  /\ last' = Call("previous", <<article>>, r.ret, r.err)
        /\ UNCHANGED <<articles, fileVars, linkVars>>

\* article.next
NextArticle(article) ==
    LET r == next(articles, article)
    IN  /\ last' = Call("next", <<article>>, r.ret, r.err)
        /\ UNCHANGED <<articles, fileVars, linkVars>>

\* parse_article(article), as far as the navigation bar goes
ParseArticle(article) ==
    LET r == nav_bar(articles, article)
    IN  /\ last' = Call("parse_article", <<article>>, r.ret, r.err)
        /\ UNCHANGED <<articles, fileVars, linkVars>>

\* The arguments of remove: it reads the title of its argument, and the
\* lookup by target reads the target; no other attribute is read.
RemoveArgs ==
    { Article("src", target, 0, title, None, None, FALSE) :
        target \in Targets, title \in Titles }

\* The articles previous and next are called on: the entries of the
\* database, and an article that is not an entry, never registered or
\* registered by register() alone.
Outsider == Article("src", "t1", 0, "A", None, None, FALSE)

TraversalArgs ==
    { articles[i] : i \in 1..Len(articles) } \cup {Outsider, register(Outsider)}

Next ==
    \/ \E a \in NewArticles : Insert(a)
    \/ \E a \in RemoveArgs : Remove(a)
    \/ \E a \in TraversalArgs : Previous(a)
    \/ \E a \in TraversalArgs : NextArticle(a)

Spec == Init /\ [][Next]_vars

\* The registry as inserts build it, and the navigation bar of an article
NextNavBar ==
    \/ \E a \in NewArticles : Insert(a)
    \/ \E a \in TraversalArgs : ParseArticle(a)

SpecNavBar == Init /\ [][NextNavBar]_vars

-----------------------------------------------------------------------------
(* Properties of the in-memory registry, checked under Spec *)

Sorted(arts) ==
    \A i \in 1..(Len(arts) - 1) : arts[i].pub_date <= arts[i + 1].pub_date

DistinctTitles(arts) ==
    \A i, j \in 1..Len(arts) : i # j => arts[i].title # arts[j].title

HasTitle(arts, title) == \E i \in 1..Len(arts) : arts[i].title = title

UniqueTargets(arts) ==
    \A i, j \in 1..Len(arts) : i # j => arts[i].target # arts[j].target

\* C1: an insert call on a registry that is sorted non-decreasing by
\* pub_date (the empty registry is) leaves it sorted non-decreasing.
C1_InsertKeepsSorted ==
    [][(last'.op = "insert" /\ Sorted(articles)) => Sorted(articles')]_vars

\* An article was inserted between an earlier and a later entry.
C1_Witness ==
    /\ last.op = "insert"
    /\ Len(articles) = 3
    /\ last.arg = <<articles[2]>>
    /\ articles[1].pub_date < articles[3].pub_date
    /\ Sorted(articles)

\* C2: insert into a sorted registry puts the new article after every entry
\* whose pub_date is less than or equal to its own and before every entry
\* whose pub_date is greater, changing nothing else: articles of one date
\* stand in insertion order.
C2_InsertStable ==
    [][(last'.op = "insert" /\ Sorted(articles)) =>
        \E p \in 1..(Len(articles) + 1) :
            /\ articles' = ListInsert(articles, p, last'.arg[1])
            /\ \A i \in 1..Len(articles) :
                /\ i < p => articles[i].pub_date <= last'.arg[1].pub_date
                /\ i >= p => articles[i].pub_date > last'.arg[1].pub_date]_vars

\* The inserted article stands after a different article of its own date
\* and before one of a later date.
C2_Witness ==
    /\ last.op = "insert"
    /\ Len(articles) = 3
    /\ last.arg = <<articles[2]>>
    /\ articles[1] # articles[2]
    /\ articles[1].pub_date = articles[2].pub_date
    /\ articles[2].pub_date < articles[3].pub_date

\* C3: in a registry whose titles are pairwise distinct, previous of the
\* entry at position i returns the entry at i - 1, or None for the first
\* entry, and next returns the entry at i + 1, or None for the last.
C3_Traversal ==
    \A i \in 1..Len(articles) :
        (DistinctTitles(articles) /\ last.arg = <<articles[i]>>) =>
            /\ last.op = "previous" =>
                  /\ last.err = ""
                  /\ last.ret = IF i = 1 THEN <<>> ELSE <<articles[i - 1]>>
            /\ last.op = "next" =>
                  /\ last.err = ""
                  /\ last.ret = IF i = Len(articles) THEN <<>>
                                ELSE <<articles[i + 1]>>

\* previous was called on the middle one of three entries.
C3_Witness ==
    /\ last.op = "previous"
    /\ Len(articles) = 3
    /\ DistinctTitles(articles)
    /\ last.arg = <<articles[2]>>
    /\ last.ret = <<articles[1]>>

\* C5: no two articles of the registry have the same target.
C5_UniqueTargets == UniqueTargets(articles)

\* C6: remove with an article whose title no entry has raises ValueError
\* and leaves the article list as it was.
C6_RemoveMissing ==
    [][(last'.op = "remove" /\ ~HasTitle(articles, last'.arg[1].title)) =>
        (last'.err = "ValueError" /\ articles' = articles)]_vars

\* remove failed on a registry that holds articles.
C6_Witness ==
    /\ last.op = "remove"
    /\ last.err = "ValueError"
    /\ Len(articles) >= 2

\* C7, as claimed: in a registry of unique targets, remove of an article
\* deletes the entry whose target equals the article's target, also when
\* another entry has the article's title.
C7_RemoveByTarget ==
    [][(/\ last'.op = "remove"
        /\ UniqueTargets(articles)
        /\ HasTitle(articles, last'.arg[1].title)
        /\ \E i \in 1..Len(articles) :
              articles[i].target = last'.arg[1].target) =>
        \E i \in 1..Len(articles) :
            /\ articles[i].target = last'.arg[1].target
            /\ \A j \in 1..(i - 1) : articles[j].target # last'.arg[1].target
            /\ articles' = ListPop(articles, i)]_vars

\* C7, amended: remove always looks the entry up by title. It deletes the
\* first entry whose title equals the article's title, whatever its
\* target; the targets of the entries are not consulted.
C7_RemoveByTitle ==
    [][(last'.op = "remove" /\ HasTitle(articles, last'.arg[1].title)) =>
        \E i \in 1..Len(articles) :
            /\ articles[i].title = last'.arg[1].title
            /\ \A j \in 1..(i - 1) : articles[j].title # last'.arg[1].title
            /\ articles' = ListPop(articles, i)
            /\ last'.err = ""]_vars

\* In a registry of unique targets remove succeeded on an entry with
\* another target than its argument's, and the entry with the target of its
\* argument is still in the registry.
C7_Witness ==
    /\ last.op = "remove"
    /\ last.err = ""
    /\ UniqueTargets(articles \o last.ret)
    /\ last.ret[1].target # last.arg[1].target
    /\ \E i \in 1..Len(articles) : articles[i].target = last.arg[1].target

\* C8: previous and next raise DatabaseError exactly when the article they
\* are called on was never registered.
C8_NotRegistered ==
    last.op \in {"previous", "next"} =>
        (last.err = "DatabaseError" <=> ~last.arg[1].registered)

\* previous returned on a registered article whose registry is empty.
C8_Witness ==
    /\ last.op = "previous"
    /\ articles = <<>>
    /\ last.arg[1].registered
    /\ last.err = ""
    /\ last.ret = <<>>

\* Whether text holds the lexemes of part, one after the other
Contains(text, part) ==
    \E i \in 1..(Len(text) - Len(part) + 1) :
        SubSeq(text, i, i + Len(part) - 1) = part

\* The index of the first entry with the title of the article, 0 for none
FirstWithTitle(arts, article) ==
    IF HasTitle(arts, article.title)
    THEN Min({ i \in 1..Len(arts) : arts[i].title = article.title })
    ELSE 0

\* C20: the navigation bar of a registered article always has the Home
\* link; when the article has an entry before it in the registry the bar
\* has one Previous link, to ../<target of that entry>; when it has none
\* the bar has no Previous link at all, nor an anchor with an empty href.
C20_NavBar ==
    (last.op = "parse_article" /\ last.err = "") =>
        LET bar == last.ret[1]
            i == FirstWithTitle(articles, last.arg[1])
        IN  /\ Contains(bar, <<AOPEN, UP, ACLOSE, HOME>>)
            /\ Count(bar, HOME) = 1
            /\ ~Contains(bar, <<AOPEN, ACLOSE>>)
            /\ i > 1 =>
                  /\ Count(bar, PREV) = 1
                  /\ Contains(bar, <<AOPEN, UP, articles[i - 1].target,
                                     ACLOSE, PREV>>)
            /\ i <= 1 => Count(bar, PREV) = 0 /\ Count(bar, AOPEN) = 1

\* The bar of the second of three entries, and the bar of the first.
C20_Witness ==
    /\ last.op = "parse_article"
    /\ Len(articles) = 3
    /\ DistinctTitles(articles)
    /\ last.arg[1] = articles[2]
    /\ last.ret[1] = <<AOPEN, UP, articles[1].target, ACLOSE, PREV, SP,
                       AOPEN, UP, ACLOSE, HOME>>

C20_WitnessFirst ==
    /\ last.op = "parse_article"
    /\ Len(articles) = 2
    /\ last.arg[1] = articles[1]
    /\ last.ret[1] = <<SP, AOPEN, UP, ACLOSE, HOME>>

\* C22: traversal resolves an article against the first entry that has
\* its title. previous returns the entry immediately before that first
\* match, None when the match is the first entry; next returns the first
\* entry after the first match whose title differs from the article's,
\* passing over later entries of the same title, None when there is none.
\* When the titles of the registry are pairwise distinct, previous of what
\* next returned for an entry returns that entry.
C22_FirstTitleMatch ==
    (/\ last.op \in {"previous", "next"}
     /\ last.err = ""
     /\ HasTitle(articles, last.arg[1].title)) =>
        LET x == last.arg[1]
            i == FirstWithTitle(articles, x)
            later == { j \in (i + 1)..Len(articles) :
                         articles[j].title # x.title }
        IN  /\ last.op = "previous" =>
                  last.ret = IF i = 1 THEN <<>> ELSE <<articles[i - 1]>>
            /\ last.op = "next" =>
                  /\ last.ret = IF later = {} THEN <<>>
                                ELSE <<articles[Min(later)]>>
                  /\ (/\ DistinctTitles(articles)
                      /\ last.ret # <<>>
                      /\ \E k \in 1..Len(articles) : articles[k] = x) =>
                        previous(articles, last.ret[1]).ret = <<x>>

\* next was called on the first of two entries of one title and returned
\* the third entry, passing over the second; previous of the third entry
\* returns the second, not the entry next was called on.
C22_Witness ==
    /\ last.op = "next"
    /\ Len(articles) = 3
    /\ last.arg = <<articles[1]>>
    /\ articles[1].title = articles[2].title
    /\ articles[1] # articles[2]
    /\ last.ret = <<articles[3]>>
    /\ previous(articles, articles[3]).ret = <<articles[2]>>

\* next was called on the last of three entries, whose title the first
\* entry has too, and returned the second entry.
C22_WitnessBackwards ==
    /\ last.op = "next"
    /\ Len(articles) = 3
    /\ last.arg = <<articles[3]>>
    /\ articles[1].title = articles[3].title
    /\ last.ret = <<articles[2]>>

-----------------------------------------------------------------------------
(* Commit and load *)

\* pub_date values of two minutes: all ticks of the first, and the first
\* tick of the second
PersistDates == 0..TicksPerMinute

\* What an article may have on disk: nothing written yet; both variants
\* written; an AMP body rendered and not yet written.
Renderings ==
    { [html_filename |-> None, amp_filename |-> None, amp |-> FALSE],
      [html_filename |-> "index-noamp.html", amp_filename |-> "index.html",
       amp |-> TRUE],
      [html_filename |-> None, amp_filename |-> None, amp |-> TRUE] }

\* Registered articles with and without a source and a title
PersistArticles ==
    { register(Article(source, target, pub_date, title, r.html_filename,
                       r.amp_filename, r.amp)) :
        source \in {None, "src"}, target \in Targets,
        pub_date \in PersistDates, title \in {None, "A"}, r \in Renderings }

\* The registries that insert builds from them, one article to a target
PersistRegistries ==
    { arts \in UNION { [1..n -> PersistArticles] : n \in 0..MaxPersistLen } :
        Sorted(arts) /\ UniqueTargets(arts) }

InitPersist ==
    /\ articles \in PersistRegistries
    /\ last = Call("init", <<>>, <<>>, "")
    /\ file \in {NoFile, Unreadable, Malformed}
    /\ committed = <<>>
    /\ page = NoPage
    /\ calls = <<>>
    /\ site = NoSite

\* get_article_database().commit()
Commit(writable) ==
    LET r == commit(articles, file, writable)
    IN  /\ file' = r.file
        /\ committed' = IF r.err = "" THEN articles ELSE committed
        /\ last' = Call("commit", <<>>, <<>>, r.err)
        /\ UNCHANGED <<articles, linkVars>>

\* get_article_database(): a database object constructed from the file,
\* which the caller holds from then on. When the constructor raises the
\* caller gets no new object.
Load ==
    LET r == get_article_database(file)
    IN  /\ articles' = IF r.err = "" THEN r.articles ELSE articles
        /\ last' = Call("load", <<>>,
                        IF r.err = "" THEN <<r.articles>> ELSE <<>>, r.err)
        /\ UNCHANGED <<fileVars, linkVars>>

NextPersist ==
    \/ \E writable \in BOOLEAN : Commit(writable)
    \/ Load

SpecPersist == InitPersist /\ [][NextPersist]_vars

\* C4: a load that follows a commit succeeds and yields as many articles
\* as were committed, in the same order, each with the target, source and
\* title of the committed article and its pub_date to the minute.
C4_RoundTrip ==
    (last.op = "load" /\ file.state = "json") =>
        /\ last.err = ""
        /\ Len(articles) = Len(committed)
        /\ \A i \in 1..Len(committed) :
            /\ articles[i].target = committed[i].target
            /\ articles[i].source = committed[i].source
            /\ articles[i].title = committed[i].title
            /\ str_from_pub_date(articles[i]) = str_from_pub_date(committed[i])

\* C14: an access to the registry after the first one of the process
\* that hands out a registry hands out the sequence the process holds in
\* memory, uncommitted inserts and removes included, whatever the file
\* holds.
C14_LoadedOnce ==
    [][(last.op \in {"load", "commit"} /\ last'.op = "load"
            /\ last'.err = "") =>
          articles' = articles]_vars

\* C15: a load of a missing or unreadable file yields the empty registry
\* and raises nothing; a load of a file that is not JSON raises an error
\* and yields no registry.
C15_LoadMissingOrMalformed ==
    last.op = "load" =>
        /\ file.state \in {"missing", "unreadable"} =>
              last.err = "" /\ last.ret = << <<>> >> /\ articles = <<>>
        /\ file.state = "malformed" => last.err # "" /\ last.ret = <<>>

\* A process that held two articles loaded an unreadable file.
C15_Witness ==
    /\ last.op = "load"
    /\ file.state = "unreadable"
    /\ committed # <<>>
    /\ Len(committed) = 2
    /\ articles = <<>>

\* A load of a file that is not JSON raised.
C15_WitnessMalformed ==
    /\ last.op = "load"
    /\ file.state = "malformed"
    /\ last.err = "ValueError"

-----------------------------------------------------------------------------
(* Next links in rendered pages *)

\* Markup of a rendered page: the Home link of the navigation bar
\* (_NAV_BAR_TEMPLATE), a Next link to t2, a link to some other page, and
\* the end of a line.
HomeAnchor == <<AOPEN, UP, ACLOSE, HOME>>
NextAnchor(target) == <<SP, AOPEN, UP, target, ACLOSE, NEXT>>
OtherAnchor == <<SP, AOPEN, UP, ACLOSE, "About</a>">>
Chunks == {HomeAnchor, NextAnchor("t2"), OtherAnchor, <<NL>>}

RECURSIVE Flatten(_)
Flatten(chunks) ==
    IF chunks = <<>> THEN <<>> ELSE Head(chunks) \o Flatten(Tail(chunks))

\* Rendered pages: every page has the Home link of the navigation bar.
Documents ==
    { d \in { Flatten(cs) :
                cs \in UNION { [1..n -> Chunks] : n \in 1..MaxChunks } } :
        Count(d, HOME) >= 1 }

InitLinks ==
    /\ articles = <<>>
    /\ last = Call("init", <<>>, <<>>, "")
    /\ file = NoFile
    /\ committed = <<>>
    /\ page \in { [html |-> d, amp |-> d] : d \in Documents }
    /\ calls = <<>>
    /\ site = NoSite

Body(p, amp) == IF amp THEN p.amp ELSE p.html

\* insert_next_link(target_article, next_article, amp) on the page of
\* target_article; calls records the arguments and the body it read.
InsertNextLink(next_target, amp) ==
    /\ Len(calls) < MaxCalls
    /\ page' = IF amp
               THEN [page EXCEPT !.amp = insert_next_link(page.amp, next_target)]
               ELSE [page EXCEPT !.html = insert_next_link(page.html, next_target)]
    /\ calls' = Append(calls, [next |-> next_target, amp |-> amp,
                               body |-> Body(page, amp)])
    /\ UNCHANGED <<regVars, fileVars, site>>

NextLinks == \E t \in Targets, amp \in BOOLEAN : InsertNextLink(t, amp)

SpecLinks == InitLinks /\ [][NextLinks]_vars

\* The last call, and whether the call before it had the same arguments
LastCall == calls[Len(calls)]

Repeated ==
    /\ Len(calls) >= 2
    /\ calls[Len(calls) - 1].next = LastCall.next
    /\ calls[Len(calls) - 1].amp = LastCall.amp

\* C9, as claimed: after two successive calls with the same next article
\* on a page with one home-link marker, the body has exactly one Next
\* anchor and equals the body after the first call.
C9_ExactlyOneNext ==
    (Repeated /\ Count(calls[Len(calls) - 1].body, HOME) = 1) =>
        /\ Body(page, LastCall.amp) = LastCall.body
        /\ Count(Body(page, LastCall.amp), NEXT) = 1

\* C9, amended: after two successive calls with the same next article the
\* body equals the body after the first call, so the second call adds no
\* Next anchor and changes none.
C9_Idempotent ==
    Repeated =>
        /\ Body(page, LastCall.amp) = LastCall.body
        /\ Count(Body(page, LastCall.amp), NEXT) = Count(LastCall.body, NEXT)

\* The first of two equal calls put a Next anchor to t1 into a body that had
\* no Next anchor, and the body has that one anchor after the second.
C9_Witness ==
    /\ Repeated
    /\ LastCall.next = "t1"
    /\ Count(calls[Len(calls) - 1].body, NEXT) = 0
    /\ Count(LastCall.body, NEXT) = 1
    /\ Count(Body(page, LastCall.amp), "t1") = 1

\* An anchor with the text Next directly after the lexeme at position k:
\* the positions of its closing quote
HrefLexemes == {UP} \cup Targets

NextAnchorAfter(text, k) ==
    { j \in (k + 3)..(Len(text) - 1) :
        /\ text[k + 1] = SP
        /\ text[k + 2] = AOPEN
        /\ text[j] = ACLOSE
        /\ text[j + 1] = NEXT
        /\ \A m \in (k + 3)..(j - 1) : text[m] \in HrefLexemes }

\* C10: for a body with one home-link marker, at position k: a Next anchor
\* directly after the marker is replaced by the anchor to ../<next.target>,
\* otherwise that anchor is inserted directly after the marker; the text
\* before the marker and the text after the old anchor, or after the
\* marker, stay as they were.
C10_ReplaceOrInsert ==
    (calls # <<>> /\ Count(LastCall.body, HOME) = 1) =>
        LET old == LastCall.body
            k == CHOOSE i \in 1..Len(old) : old[i] = HOME
            anchor == NextAnchor(LastCall.next)
            rest == IF NextAnchorAfter(old, k) = {} THEN k + 1
                    ELSE Min(NextAnchorAfter(old, k)) + 2
        IN  Body(page, LastCall.amp) =
                SubSeq(old, 1, k) \o anchor \o SubSeq(old, rest, Len(old))

-----------------------------------------------------------------------------
(* Previous links in rendered pages *)

\* Markup of a rendered page: a Previous link as _NAV_BAR_TEMPLATE has it,
\* to t1 or to t2, the Home link after it, a link to some other page, and
\* the end of a line.
PreviousAnchor(target) == <<AOPEN, UP, target, ACLOSE, PREV>>
PreviousChunks ==
    {PreviousAnchor("t1"), PreviousAnchor("t2"), <<SP>> \o HomeAnchor,
     OtherAnchor, <<NL>>}

PreviousDocuments ==
    { Flatten(cs) : cs \in UNION { [1..n -> PreviousChunks] : n \in 1..MaxChunks } }

InitPreviousLinks ==
    /\ articles = <<>>
    /\ last = Call("init", <<>>, <<>>, "")
    /\ file = NoFile
    /\ committed = <<>>
    /\ page \in { [html |-> d, amp |-> d] : d \in PreviousDocuments }
    /\ calls = <<>>
    /\ site = NoSite

\* insert_previous_link(target_article, previous_article, amp) on the page
\* of target_article; calls records the arguments, the body it read and
\* the other body of the page.
InsertPreviousLink(previous_target, amp) ==
    /\ Len(calls) < MaxCalls
    /\ page' = IF amp
               THEN [page EXCEPT
                       !.amp = insert_previous_link(page.amp, previous_target)]
               ELSE [page EXCEPT
                       !.html = insert_previous_link(page.html, previous_target)]
    /\ calls' = Append(calls, [previous |-> previous_target, amp |-> amp,
                               body |-> Body(page, amp),
                               other |-> Body(page, ~amp)])
    /\ UNCHANGED <<regVars, fileVars, site>>

NextPreviousLinks ==
    \E t \in Targets, amp \in BOOLEAN : InsertPreviousLink(t, amp)

SpecPreviousLinks == InitPreviousLinks /\ [][NextPreviousLinks]_vars

\* The positions of the closing quote of a Previous anchor
PreviousAnchorEnds(text) ==
    { j \in 1..(Len(text) - 1) : text[j] = ACLOSE /\ text[j + 1] = PREV }

\* C11: insert_previous_link leaves a body without a Previous anchor as it
\* was; in a body with one it makes the first Previous anchor point at
\* ../<previous.target> and adds no Previous anchor; the other body of the
\* page stays as it was.
C11_PreviousOnlyReplaced ==
    calls # <<>> =>
        LET old == LastCall.body
            new == Body(page, LastCall.amp)
        IN  /\ Body(page, ~LastCall.amp) = LastCall.other
            /\ Count(old, PREV) = 0 => new = old
            /\ Count(old, PREV) > 0 =>
                  /\ Count(new, PREV) = Count(old, PREV)
                  /\ LET j == Min(PreviousAnchorEnds(new))
                     IN  /\ j >= 4
                         /\ SubSeq(new, j - 3, j + 1) =
                                PreviousAnchor(LastCall.previous)

\* Two calls left a body without a Previous anchor alone.
C11_WitnessUnchanged ==
    /\ Len(calls) = 2
    /\ calls[1].amp = calls[2].amp
    /\ Count(calls[1].body, PREV) = 0
    /\ calls[2].body = calls[1].body
    /\ Count(Body(page, LastCall.amp), PREV) = 0

\* A call made the one Previous link of a body, to t2, a link to t1.
C11_Witness ==
    /\ calls # <<>>
    /\ LastCall.previous = "t1"
    /\ Count(LastCall.body, PREV) = 1
    /\ Count(LastCall.body, "t2") = 1
    /\ Count(Body(page, LastCall.amp), "t1") = 1
    /\ Count(Body(page, LastCall.amp), "t2") = 0

-----------------------------------------------------------------------------
(* URL construction *)

Strings(alphabet) == UNION { [1..n -> alphabet] : n \in 0..MaxUrlLen }

RootUrls == Strings({SLASH, "http://example.com"})
ArticlePaths == Strings({SLASH, BACKSLASH, "posts/1"})

InitUrl ==
    /\ articles = <<>>
    /\ \E root_url \in RootUrls, article_path \in ArticlePaths :
          last = Call("init", <<root_url, article_path>>, <<>>, "")
    /\ file = NoFile
    /\ committed = <<>>
    /\ page = NoPage
    /\ calls = <<>>
    /\ site = NoSite

\* build_article_url(root_url, article_path)
BuildArticleUrl ==
    /\ last.op = "init"
    /\ LET r == build_article_url(last.arg[1], last.arg[2])
       IN  last' = Call("build_article_url", last.arg, r.ret, r.err)
    /\ UNCHANGED <<articles, fileVars, linkVars>>

NextUrl == BuildArticleUrl

SpecUrl == InitUrl /\ [][NextUrl]_vars

\* C16: for a non-empty root URL and a non-empty path the URL is the root
\* without one trailing slash, one slash, and the path, backslashes made
\* slashes, without one leading slash; in particular for the two examples.
C16_UrlConstruction ==
    (last.op = "build_article_url" /\ last.arg[1] # <<>> /\ last.arg[2] # <<>>) =>
        /\ last.err = ""
        /\ LET root == last.arg[1]
               path == last.arg[2]
               url == last.ret[1]
               r == Len(root) - (IF root[Len(root)] = SLASH THEN 1 ELSE 0)
               lead == IF path[1] \in {SLASH, BACKSLASH} THEN 1 ELSE 0
           IN  /\ Len(url) = r + 1 + Len(path) - lead
               /\ \A i \in 1..r : url[i] = root[i]
               /\ url[r + 1] = SLASH
               /\ \A i \in 1..(Len(path) - lead) :
                     url[r + 1 + i] = IF path[i + lead] = BACKSLASH THEN SLASH
                                      ELSE path[i + lead]
               /\ (root = <<"http://example.com", SLASH>>
                      /\ path = <<SLASH, "posts/1", SLASH>>) =>
                     url = <<"http://example.com", SLASH, "posts/1", SLASH>>
               /\ (root = <<"http://example.com">> /\ path = <<"posts/1">>) =>
                     url = <<"http://example.com", SLASH, "posts/1">>

\* The URL of a root that ends with two slashes and a path that begins with
\* a backslash and a slash.
C16_Witness ==
    /\ last.op = "build_article_url"
    /\ last.arg = << <<"http://example.com", SLASH, SLASH>>,
                     <<BACKSLASH, SLASH, "posts/1">> >>
    /\ last.ret = << <<"http://example.com", SLASH, SLASH, SLASH, "posts/1">> >>

-----------------------------------------------------------------------------
(* The website: adding an article, removing one, building all *)

\* The two bodies of an article rendered against the registry: the
\* navigation bar, the templates, then the links of the article itself.
generate_post(arts, article, with_amp) ==
    LET bar == nav_bar(arts, article)
    IN  IF bar.err # "" THEN [page |-> NoPage, err |-> bar.err]
        ELSE update_links(arts, article,
                          [html |-> generate_html(bar.ret[1], article),
                           amp |-> IF with_amp
                                   THEN generate_amp(bar.ret[1], article)
                                   ELSE <<>>])

\* The page of a neighbour with its Next link, or its Previous link, set
\* to the target of the article written
relink_next(pg, target) ==
    [html |-> IF pg.html # <<>> THEN insert_next_link(pg.html, target)
              ELSE pg.html,
     amp |-> IF pg.amp # <<>> THEN insert_next_link(pg.amp, target)
             ELSE pg.amp]

relink_previous(pg, target) ==
    [html |-> IF pg.html # <<>> THEN insert_previous_link(pg.html, target)
              ELSE pg.html,
     amp |-> IF pg.amp # <<>> THEN insert_previous_link(pg.amp, target)
             ELSE pg.amp]

SiteResult(arts, the_file, the_site, popped, err) ==
    [articles |-> arts, file |-> the_file, site |-> the_site,
     popped |-> popped, err |-> err]

\* Adding an article: it is inserted into the registry, rendered and
\* written, the registry is committed, and the entry before it and the
\* entry after it get their links to it.
write_post(the_file, the_site, article) ==
    LET db == get_article_database(the_file)
        entry == register(written(article, the_site.generate_amp))
        arts == insert(db.articles, entry)
        post == generate_post(arts, entry, the_site.generate_amp)
        own == [the_site EXCEPT !.pages[article.target] = post.page]
        saved == commit(arts, the_file, TRUE)
        p == previous(arts, entry).ret
        n == next(arts, entry).ret
        before == IF p = <<>> THEN own
                  ELSE [own EXCEPT !.pages[p[1].target] =
                                       relink_next(@, article.target)]
        after == IF n = <<>> THEN before
                 ELSE [before EXCEPT !.pages[n[1].target] =
                                         relink_previous(@, article.target)]
    IN  IF db.err # "" THEN SiteResult(<<>>, the_file, the_site, <<>>, db.err)
        ELSE IF post.err # ""
             THEN SiteResult(arts, the_file, the_site, <<>>, post.err)
        ELSE IF saved.err # ""
             THEN SiteResult(arts, the_file, own, <<>>, saved.err)
        ELSE SiteResult(arts, saved.file, after, <<>>, "")

\* Building the website: every article of the registry is rendered and
\* written anew, in the order of the registry.
RECURSIVE build_from(_, _, _)
build_from(arts, the_site, index) ==
    IF index > Len(arts) THEN [site |-> the_site, err |-> ""]
    ELSE LET post == generate_post(arts, arts[index], the_site.generate_amp)
         IN  IF post.err # "" THEN [site |-> the_site, err |-> post.err]
             ELSE build_from(arts,
                             [the_site EXCEPT
                                 !.pages[arts[index].target] = post.page],
                             index + 1)

build_website(the_file, the_site) ==
    LET db == get_article_database(the_file)
        built == build_from(db.articles, the_site, 1)
    IN  IF db.err # "" THEN SiteResult(<<>>, the_file, the_site, <<>>, db.err)
        ELSE SiteResult(db.articles, the_file, built.site, <<>>, built.err)

\* Removing the article of a title: it is removed from the registry, the
\* registry is committed, and the website is built.
remove_post(the_file, the_site, title) ==
    LET db == get_article_database(the_file)
        gone == remove(db.articles, Article(None, None, 0, title, None, None, FALSE))
        saved == commit(gone.articles, the_file, TRUE)
        built == build_from(gone.articles, the_site, 1)
    IN  IF db.err # "" THEN SiteResult(<<>>, the_file, the_site, <<>>, db.err)
        ELSE IF gone.err # ""
             THEN SiteResult(db.articles, the_file, the_site, <<>>, gone.err)
        ELSE IF saved.err # ""
             THEN SiteResult(gone.articles, the_file, the_site, gone.popped,
                             saved.err)
        ELSE SiteResult(gone.articles, saved.file, built.site, gone.popped,
                        built.err)

\* The articles added: Markdown sources with a title, a target directory
\* and a date at the start of a minute.
SitePairs == {<<"t1", "A">>, <<"t2", "B">>, <<"t3", "C">>}
SiteDates == { m * TicksPerMinute : m \in 0..MaxSiteMinute }

SiteArticles ==
    { Article("src", pair[1], pub_date, pair[2], None, None, FALSE) :
        pair \in SitePairs, pub_date \in SiteDates }

InitSite ==
    /\ articles = <<>>
    /\ last = Call("init", <<>>, <<>>, "")
    /\ file = NoFile
    /\ committed = <<>>
    /\ page = NoPage
    /\ calls = <<>>
    /\ \E with_amp \in BOOLEAN : site = [NoSite EXCEPT !.generate_amp = with_amp]

Finish(op, arg, r) ==
    /\ articles' = r.articles
    /\ file' = r.file
    /\ site' = r.site
    /\ committed' = IF r.file # file THEN r.articles ELSE committed
    /\ last' = Call(op, arg, r.popped, r.err)
    /\ UNCHANGED pageVars

\* An article is added whose title no article of the registry has.
AddArticle(article) ==
    /\ ~HasTitle(get_article_database(file).articles, article.title)
    /\ Finish("add", <<article>>, write_post(file, site, article))

RemoveArticle(title) == Finish("remove", <<title>>, remove_post(file, site, title))

BuildWebsite == Finish("build", <<>>, build_website(file, site))

NextSite ==
    \/ \E article \in SiteArticles : AddArticle(article)
    \/ \E title \in Titles : RemoveArticle(title)
    \/ BuildWebsite

SpecSite == InitSite /\ [][NextSite]_vars

\* The registry a process holds after a command is the one in the file.
SiteInSync == load(file) = [err |-> "", articles |-> articles]

\* The bodies that the page of a target directory has
Bodies(the_site, from) ==
    {the_site.pages[from].html} \cup
        (IF the_site.generate_amp THEN {the_site.pages[from].amp} ELSE {})

\* Every body of the page of from has one Previous link, to the target
\* to, or one Next link, to the target to and directly after the Home link
PreviousTo(the_site, from, to) ==
    \A body \in Bodies(the_site, from) :
        Count(body, PREV) = 1 /\ Contains(body, PreviousAnchor(to))

NextTo(the_site, from, to) ==
    \A body \in Bodies(the_site, from) :
        Count(body, NEXT) = 1 /\ Contains(body, <<HOME>> \o NextAnchor(to))

\* C12: an article added that lands between two entries stands between
\* them in the registry; its page links to the entry before it as previous
\* and to the entry after it as next; the page of the entry before it has
\* its Next link to the article and the page of the entry after it its
\* Previous link to the article.
C12_AddBetween ==
    (last.op = "add" /\ last.err = "") =>
        LET new == last.arg[1]
            i == FirstWithTitle(articles, new)
        IN  (1 < i /\ i < Len(articles)) =>
                LET first == articles[i - 1]
                    second == articles[i + 1]
                IN  /\ first.pub_date <= new.pub_date
                    /\ new.pub_date <= second.pub_date
                    /\ PreviousTo(site, new.target, first.target)
                    /\ NextTo(site, new.target, second.target)
                    /\ NextTo(site, first.target, new.target)
                    /\ PreviousTo(site, second.target, new.target)

-----------------------------------------------------------------------------
(* Reading the body of an article *)

\* Article.gethtml and Article.getamp: the body held in memory if there is
\* one, else the text of the file at the read path; None when there is no
\* path, and None as well when the file cannot be read (except OSError).
getbody(cached, path, readable, text) ==
    IF cached # <<>> THEN [ret |-> <<cached>>, err |-> ""]
    ELSE IF path = None THEN [ret |-> <<>>, err |-> ""]
    ELSE IF ~readable THEN [ret |-> <<>>, err |-> ""]
    ELSE [ret |-> <<text>>, err |-> ""]

\* The page of an article as its files hold it
InitBodies ==
    /\ articles = <<>>
    /\ last = Call("init", <<>>, <<>>, "")
    /\ file = NoFile
    /\ committed = <<>>
    /\ page \in { [html |-> d, amp |-> d] : d \in PreviousDocuments }
    /\ calls = <<>>
    /\ site = NoSite

\* article.html or article.amp is read: with or without a body in memory,
\* with or without a read path, the file readable or not
GetBody(amp, cached, path, readable) ==
    /\ LET r == getbody(IF cached THEN Body(page, amp) ELSE <<>>, path,
                        readable, Body(page, amp))
       IN  last' = Call(IF amp THEN "getamp" ELSE "gethtml",
                        <<cached, path, readable>>, r.ret, r.err)
    /\ UNCHANGED <<articles, fileVars, linkVars>>

NextBodies ==
    \E amp \in BOOLEAN, cached \in BOOLEAN, path \in {None, "index.html"},
       readable \in BOOLEAN : GetBody(amp, cached, path, readable)

SpecBodies == InitBodies /\ [][NextBodies]_vars

\* C19: a read of the body of an article that fails is reported to the
\* caller as an error.
C19_ReadFailureSurfaces ==
    (last.op \in {"gethtml", "getamp"} /\ ~last.arg[1] /\ last.arg[2] # None
        /\ ~last.arg[3]) =>
        last.err # ""

-----------------------------------------------------------------------------
(* The program run from the command line *)

RECURSIVE Reverse(_)
Reverse(x) == IF x = <<>> THEN <<>> ELSE Reverse(Tail(x)) \o <<Head(x)>>

\* create_article_previews, as generate_html_homepage goes through it: the
\* titles of the registry read from the file, the newest first.
\* extract_article_preview calls exists() on the html path of each
\* article, AttributeError for one that was never written.
create_article_previews(the_file) ==
    LET db == get_article_database(the_file)
    IN  IF db.err # "" THEN [ret |-> <<>>, err |-> db.err]
        ELSE IF \E i \in 1..Len(db.articles) :
                    db.articles[i].html_filename = None
             THEN [ret |-> <<>>, err |-> "AttributeError"]
        ELSE [ret |-> <<Reverse([i \in 1..Len(db.articles) |->
                                   db.articles[i].title])>>,
              err |-> ""]

\* create_rss_feed: an item for every preview; the loop reads
\* article.path, which no ArticlePreview has.
create_rss_feed(the_file) ==
    LET previews == create_article_previews(the_file)
    IN  IF previews.err # "" THEN previews
        ELSE IF previews.ret[1] # <<>>
             THEN [ret |-> <<>>, err |-> "AttributeError"]
        ELSE [ret |-> << <<>> >>, err |-> ""]

\* cl_args.func(cl_args): the subcommand either raises or leaves the
\* registry it worked on committed
subcommand(arts, the_file, succeeds, writable) ==
    IF succeeds THEN commit(arts, the_file, writable)
    ELSE [file |-> the_file, err |-> "IOError"]

\* What a run leaves behind: the files written after the subcommand, in
\* order, the titles on the landing page, whether the exception was
\* printed or left the program, and the exit status
Outcome(files, landing, error, debug) ==
    [written |-> files, landing |-> landing,
     printed |-> error # "" /\ ~debug,
     propagated |-> error # "" /\ debug,
     status |-> IF error # "" /\ debug THEN 1 ELSE 0]

\* auteur(): the subcommand, the landing page, the RSS feed; an
\* exception is raised again in debug mode and printed otherwise, and
\* after printing the function returns.
auteur(arts, the_file, debug, succeeds, writable) ==
    LET func == subcommand(arts, the_file, succeeds, writable)
        landing_page == create_article_previews(func.file)
        rss_feed == create_rss_feed(func.file)
    IN  IF func.err # ""
        THEN [file |-> func.file, err |-> func.err,
              ret |-> Outcome(<<>>, <<>>, func.err, debug)]
        ELSE IF landing_page.err # ""
             THEN [file |-> func.file, err |-> landing_page.err,
                   ret |-> Outcome(<<>>, <<>>, landing_page.err, debug)]
        ELSE IF rss_feed.err # ""
             THEN [file |-> func.file, err |-> rss_feed.err,
                   ret |-> Outcome(<<"index.html">>, landing_page.ret[1],
                                   rss_feed.err, debug)]
        ELSE [file |-> func.file, err |-> "",
              ret |-> Outcome(<<"index.html", "rss_feed_path">>,
                              landing_page.ret[1], "", debug)]

Auteur(debug, succeeds, writable) ==
    /\ last.op = "init"
    /\ LET r == auteur(articles, file, debug, succeeds, writable)
       IN  /\ file' = r.file
           /\ committed' = IF r.file # file THEN articles ELSE committed
           /\ last' = Call("auteur", <<debug, succeeds>>, <<r.ret>>, r.err)
    /\ UNCHANGED <<articles, linkVars>>

NextMain ==
    \E debug \in BOOLEAN, succeeds \in BOOLEAN, writable \in BOOLEAN :
        Auteur(debug, succeeds, writable)

SpecMain == InitPersist /\ [][NextMain]_vars

\* Every article has a source and a title and has been written
Published(arts) ==
    \A i \in 1..Len(arts) :
        /\ arts[i].source # None
        /\ arts[i].title # None
        /\ arts[i].html_filename # None

\* C17: after a subcommand that completed, on a registry of articles that
\* have been written, the landing page and then the RSS feed are written,
\* the landing page from the registry as committed; after a subcommand
\* that failed neither is written.
C17_LandingThenFeed ==
    (last.op = "auteur" /\ Published(articles)) =>
        LET out == last.ret[1]
        IN  /\ (last.arg[2] /\ file.state = "json" /\ committed = articles) =>
                  /\ out.written = <<"index.html", "rss_feed_path">>
                  /\ out.landing = Reverse([i \in 1..Len(committed) |->
                                              committed[i].title])
            /\ ~last.arg[2] => out.written = <<>>

\* C18: when an error reaches the top level, without debug mode it is
\* printed and the exit status is not 0; in debug mode it leaves the
\* program and is not printed.
C18_ErrorAtBoundary ==
    (last.op = "auteur" /\ last.err # "") =>
        LET out == last.ret[1]
        IN  /\ ~last.arg[1] => out.printed /\ out.status # 0
            /\ last.arg[1] => out.propagated /\ ~out.printed

-----------------------------------------------------------------------------
(* The dates of registered articles *)

\* Article.pub_date_today: today is what datetime.today() returns
pub_date_today(article, today) == [article EXCEPT !.pub_date = today]

\* Article.pub_date_from_str
pub_date_from_str(article, date_string) ==
    [article EXCEPT !.pub_date = date_string_to_datetime(date_string)]

\* Two articles, each with its target directory, at every date
DatedArticles ==
    { Article("src", pair[1], pub_date, pair[2], None, None, FALSE) :
        pub_date \in Dates, pair \in {<<"t1", "A">>, <<"t2", "B">>} }

\* Date strings of the first two minutes
DateStrings == {0, 1}

\* The database file of a project: none yet, or the file committed from a
\* registry of two articles
DatedFiles ==
    { NoFile,
      commit(insert(insert(<<>>, Article("src", "t1", 0, "A", None, None,
                                         FALSE)),
                    Article("src", "t2", MaxDate, "B", None, None, FALSE)),
             NoFile, TRUE).file }

InitDates ==
    /\ articles = <<>>
    /\ last = Call("init", <<>>, <<>>, "")
    /\ file \in DatedFiles
    /\ committed = <<>>
    /\ page = NoPage
    /\ calls = <<>>
    /\ site = NoSite

\* article.pub_date_today() on the entry at index. The list holds the
\* object itself, so the entry has the new date and stays where it is.
PubDateToday(index, today) ==
    /\ articles' = [articles EXCEPT ![index] = pub_date_today(@, today)]
    /\ last' = Call("pub_date_today", <<articles[index]>>, <<>>, "")
    /\ UNCHANGED <<fileVars, linkVars>>

\* article.pub_date_from_str(date_string) on the entry at index
PubDateFromStr(index, date_string) ==
    /\ articles' = [articles EXCEPT
                       ![index] = pub_date_from_str(@, date_string)]
    /\ last' = Call("pub_date_from_str", <<articles[index]>>, <<>>, "")
    /\ UNCHANGED <<fileVars, linkVars>>

NextDates ==
    \/ Load
    \/ \E a \in DatedArticles : Insert(a)
    \/ \E a \in RemoveArgs : Remove(a)
    \/ \E i \in 1..Len(articles), today \in Dates : PubDateToday(i, today)
    \/ \E i \in 1..Len(articles), s \in DateStrings : PubDateFromStr(i, s)

SpecDates == InitDates /\ [][NextDates]_vars

\* C21: in every state reached by load, insert, remove and changes of the
\* pub_date of a registered article (pub_date_today, pub_date_from_str),
\* the article list is sorted non-decreasing by pub_date.
C21_AlwaysSorted == Sorted(articles)

\* C23: a remove that succeeds deletes one entry, the first entry whose
\* title equals the title of the article given. Every other entry stays,
\* in the same order, so the list is one shorter, and sorted if it was
\* sorted before.
C23_RemoveOneEntry ==
    [][(last'.op = "remove" /\ last'.err = "") =>
        LET i == FirstWithTitle(articles, last'.arg[1])
        IN  /\ i > 0
            /\ last'.ret = <<articles[i]>>
            /\ Len(articles') = Len(articles) - 1
            /\ \A j \in 1..(i - 1) : articles'[j] = articles[j]
            /\ \A j \in i..Len(articles') : articles'[j] = articles[j + 1]
            /\ Sorted(articles) => Sorted(articles')]_vars

\* remove deleted the first of three entries; the two that stay have the
\* title of the entry deleted.
C23_Witness ==
    /\ last.op = "remove"
    /\ last.err = ""
    /\ Len(articles) = 2
    /\ articles[1].title = last.arg[1].title
    /\ articles[2].title = last.arg[1].title
    /\ last.ret[1].title = last.arg[1].title
    /\ Sorted(last.ret \o articles)

\* remove deleted an entry of a list that was not sorted, and the entries
\* that stay are in the order they had.
C23_WitnessUnsorted ==
    /\ last.op = "remove"
    /\ last.err = ""
    /\ Len(articles) = 2
    /\ ~Sorted(articles)

-----------------------------------------------------------------------------
(* Writing the variants of an article *)

HTML_FILENAME == "index.html"
NO_AMP_FILENAME == "index-noamp.html"

\* The files of the target directory an article may name
FileNames == {HTML_FILENAME, NO_AMP_FILENAME}

\* The two flags of the configuration that Article reads
Configurations ==
    [generate_amp : BOOLEAN, generate_vanilla_html : BOOLEAN]

\* Article.__init__, as far as bodies and paths go. A path is the name of
\* a file in the target directory; a body is a sequence of lexemes, <<>>
\* when there is none.
new_article(html_filename, amp_filename, configuration) ==
    [html |-> <<>>,
     amp |-> <<>>,
     html_read_path |-> html_filename,
     amp_read_path |-> amp_filename,
     html_write_path |-> html_write_name(configuration.generate_amp),
     amp_write_path |-> IF amp_filename # None THEN amp_filename
                        ELSE amp_write_name(configuration.generate_amp)]

\* Article.sethtml
sethtml(self, new_html) == [self EXCEPT !.html = new_html]

\* Article.setamp
setamp(self, new_amp) ==
    [self EXCEPT !.amp = new_amp, !.html_write_path = NO_AMP_FILENAME]

\* Whether the file at a path can be read, and its text
Readable(files, path) == path # None /\ files[path] # <<>>
TextAt(files, path) == IF path # None THEN files[path] ELSE <<>>

\* Article.gethtml: what it returns, and the article afterwards
gethtml(self, files) ==
    LET r == getbody(self.html, self.html_read_path,
                     Readable(files, self.html_read_path),
                     TextAt(files, self.html_read_path))
    IN  [ret |-> r.ret,
         self |-> IF r.ret # <<>> THEN [self EXCEPT !.html = r.ret[1]]
                  ELSE self]

\* Article.getamp: a body read from the file moves the write path of the
\* vanilla HTML to NO_AMP_FILENAME
getamp(self, files) ==
    LET r == getbody(self.amp, self.amp_read_path,
                     Readable(files, self.amp_read_path),
                     TextAt(files, self.amp_read_path))
    IN  [ret |-> r.ret,
         self |-> IF r.ret = <<>> THEN self
                  ELSE IF self.amp # <<>> THEN self
                  ELSE [self EXCEPT !.amp = r.ret[1],
                                    !.html_write_path = NO_AMP_FILENAME]]

\* Article.write(True): the article, the files and the writes made
\* afterwards, and the exception raised. A write path of None makes
\* write_complete_file raise AttributeError.
write_amp(self, files, writes) ==
    LET got == getamp(self, files)
        path == got.self.amp_write_path
    IN  IF got.ret = <<>>
        THEN [self |-> got.self, files |-> files, writes |-> writes,
              err |-> ""]
        ELSE IF path = None
             THEN [self |-> got.self, files |-> files, writes |-> writes,
                   err |-> "AttributeError"]
        ELSE [self |-> [got.self EXCEPT !.amp_read_path = path],
              files |-> [files EXCEPT ![path] = got.ret[1]],
              writes |-> Append(writes, [variant |-> "amp", path |-> path]),
              err |-> ""]

\* Article.write()
write(self, files, configuration) ==
    LET got == gethtml(self, files)
        path == got.self.html_write_path
    IN  IF ~(got.ret # <<>> /\ configuration.generate_vanilla_html)
        THEN write_amp(got.self, files, <<>>)
        ELSE write_amp([got.self EXCEPT !.html_read_path = path],
                       [files EXCEPT ![path] = got.ret[1]],
                       <<[variant |-> "html", path |-> path]>>)

\* An article constructed under a configuration, with the file names the
\* database records for it or none, in a target directory where each of
\* the files is there or not
InitWrite ==
    /\ articles = <<>>
    /\ last = Call("init", <<>>, <<>>, "")
    /\ file = NoFile
    /\ committed = <<>>
    /\ \E configuration \in Configurations,
          files \in [FileNames -> {<<>>, <<"old">>}] :
          site = [generate_amp |-> configuration.generate_amp,
                  generate_vanilla_html |->
                      configuration.generate_vanilla_html,
                  files |-> files]
    /\ \E html_filename \in FileNames \cup {None},
          amp_filename \in FileNames \cup {None} :
          page = new_article(html_filename, amp_filename, site)
    /\ calls = <<>>

\* article.html = new_html
SetHtml(new_html) ==
    /\ page' = sethtml(page, new_html)
    /\ last' = Call("sethtml", <<new_html>>, <<>>, "")
    /\ UNCHANGED <<articles, fileVars, calls, site>>

\* article.amp = new_amp
SetAmp(new_amp) ==
    /\ page' = setamp(page, new_amp)
    /\ last' = Call("setamp", <<new_amp>>, <<>>, "")
    /\ UNCHANGED <<articles, fileVars, calls, site>>

\* article.write(); ret records the writes made, first to last
Write ==
    LET r == write(page, site.files, site)
    IN  /\ page' = r.self
        /\ site' = [site EXCEPT !.files = r.files]
        /\ last' = Call("write", <<page>>, r.writes, r.err)
        /\ UNCHANGED <<articles, fileVars, calls>>

NextWrite ==
    \/ SetHtml(<<"vanilla">>)
    \/ SetAmp(<<"amp">>)
    \/ Write

SpecWrite == InitWrite /\ [][NextWrite]_vars

\* C24: a write() call that writes both variants writes the vanilla HTML
\* to another file than the AMP body, under every configuration and every
\* recorded html_filename and amp_filename; and after a write() call the
\* read path of each variant written is the path it was written to.
C24_DistinctWritePaths ==
    last.op = "write" =>
        /\ Len(last.ret) = 2 => last.ret[1].path # last.ret[2].path
        /\ \A i \in 1..Len(last.ret) :
              /\ last.ret[i].variant = "html" =>
                    page.html_read_path = last.ret[i].path
              /\ last.ret[i].variant = "amp" =>
                    page.amp_read_path = last.ret[i].path

====
